---- MODULE Spec2Model ----
(***************************************************************************)
(* Model of pygptify.py: the iteration driver main and the pure helpers  *)
(* it calls (compile_source, create_prompt, extract_code, call_openai).    *)
(*                                                                         *)
(* Texts are sequences of one-character strings over Alphabet.  The file   *)
(* is modelled as the text that text-mode open() reads and writes; the     *)
(* alphabet has no carriage return, so newline translation does not        *)
(* arise.  File-access failures of open() are not modelled.                *)
(***************************************************************************)
EXTENDS Integers, Sequences, FiniteSets, TLC

VARIABLES
    pc,            \* position of main / of extract_code
    iterations,    \* main's parameter iterations
    iteration,     \* number printed by print_iteration_details: rounds started
    disk,          \* content of the file filename
    source,        \* main's local source (the Source Buffer)
    new_source,    \* main's local new_source (the candidate)
    error,         \* main's local error
    prompt,        \* format_source's local prompt, of the current round
    response,      \* format_source's local response, of the current round
    finish_reason, \* completion.choices[0].finish_reason of the current round
    raised,        \* the exception that ended the run, "" if none
    diff,          \* arguments print_diff handed to difflib in the current round
    calls,         \* history: number of call_openai invocations
    writes,        \* history: number of write_file invocations
    diffs,         \* history: number of print_iteration_details invocations
    validations,   \* history: number of compile_source calls on a candidate
    lastGood,      \* history: initial content, then last candidate ast.parse accepted
    lastOutcome,   \* history: str(e) of the last completed round, <<>> if it passed
    script         \* extract_code's local script

vars == <<pc, iterations, iteration, disk, source, new_source, error, prompt,
          response, finish_reason, raised, diff, calls, writes, diffs,
          validations, lastGood, lastOutcome, script>>

----------------------------------------------------------------------------
(* Bounds *)

MaxLen == 2       \* longest file content / response body drawn
MaxIter == 3      \* largest iterations drawn

----------------------------------------------------------------------------
(* Texts *)

\* the token that stands for the backtick character
BACKTICK == "backtick"

Alphabet == {"a", " ", "\n", BACKTICK}

TextsUpTo(n) == UNION {[1..k -> Alphabet] : k \in 0..n}

Texts == TextsUpTo(MaxLen)

NoText == <<>>

NoDiff == <<>>

Range(s) == {s[i] : i \in 1..Len(s)}

Min(S) == CHOOSE m \in S : \A k \in S : m <= k

\* str.strip() with no argument removes leading and trailing whitespace
IsSpace(c) == c \in {" ", "\n"}

RECURSIVE lstrip(_)
lstrip(s) == IF s # <<>> /\ IsSpace(Head(s)) THEN lstrip(Tail(s)) ELSE s

RECURSIVE rstrip(_)
rstrip(s) ==
    IF s # <<>> /\ IsSpace(s[Len(s)]) THEN rstrip(SubSeq(s, 1, Len(s) - 1)) ELSE s

strip(s) == rstrip(lstrip(s))

startswith(s, p) == Len(s) >= Len(p) /\ SubSeq(s, 1, Len(p)) = p

endswith(s, p) == Len(s) >= Len(p) /\ SubSeq(s, Len(s) - Len(p) + 1, Len(s)) = p

\* str.split("\n"): the physical lines the tokenizer sees
RECURSIVE SplitNL(_)
SplitNL(s) ==
    IF "\n" \notin Range(s) THEN <<s>>
    ELSE LET i == Min({k \in 1..Len(s) : s[k] = "\n"})
         IN  <<SubSeq(s, 1, i - 1)>> \o SplitNL(SubSeq(s, i + 1, Len(s)))

\* str.splitlines(): as split on newline, without the empty piece after a
\* final newline, and nothing at all for the empty string
splitlines(s) ==
    IF s = <<>> THEN <<>>
    ELSE LET parts == SplitNL(s)
         IN  IF s[Len(s)] = "\n" THEN SubSeq(parts, 1, Len(parts) - 1) ELSE parts

----------------------------------------------------------------------------
(* compile_source: ast.parse restricted to Alphabet.                       *)
(* A line of blanks is ignored; a line that starts with a blank is an      *)
(* unexpected indent (no block is ever open); a backtick is no token; two  *)
(* names on one line are no statement.                                     *)

NoError == <<>>

LineError(l) ==
    IF \A i \in 1..Len(l) : l[i] = " " THEN ""
    ELSE IF l[1] = " " THEN "unexpected indent"
    ELSE IF BACKTICK \in Range(l) THEN "invalid syntax"
    ELSE IF \E i, j \in 1..Len(l) : i < j /\ l[i] = " " /\ l[j] # " "
         THEN "invalid syntax"
    ELSE ""

\* str(e) of the SyntaxError ast.parse raises on text, NoError if it returns
compile_source(text) ==
    LET lines == SplitNL(text)
        bad == {i \in 1..Len(lines) : LineError(lines[i]) # ""}
    IN  IF bad = {} THEN NoError
        ELSE <<LineError(lines[Min(bad)]), "line", ToString(Min(bad))>>

----------------------------------------------------------------------------
(* create_prompt *)

PROMPT_HEAD == "Please refactor the python code according to clean code principles"

PROMPT_TAIL == "end of source"

HINT_HEAD == "The following error was raised when trying to compile a previous recommendation"

HINT_TAIL == "end of hint"

create_prompt(src, err) ==
    LET base == <<PROMPT_HEAD>> \o src \o <<PROMPT_TAIL>>
    IN  IF err # NoError THEN base \o <<HINT_HEAD>> \o err \o <<HINT_TAIL>>
        ELSE base

----------------------------------------------------------------------------
(* extract_code *)

BACKTICKS == <<BACKTICK, BACKTICK, BACKTICK>>

\* variant: also drops the rest of the opening fence line's whitespace
RemoveStartAndNewline(s) ==
    IF startswith(s, BACKTICKS)
    THEN lstrip(SubSeq(s, Len(BACKTICKS) + 1, Len(s))) ELSE s

RemoveStart(s) ==
    IF startswith(s, BACKTICKS) THEN SubSeq(s, Len(BACKTICKS) + 1, Len(s)) ELSE s

\* variant: also trims what precedes the closing fence
RemoveEndAndStrip(s) ==
    IF endswith(s, BACKTICKS)
    THEN rstrip(SubSeq(s, 1, Len(s) - Len(BACKTICKS))) ELSE s

RemoveEnd(s) ==
    IF endswith(s, BACKTICKS) THEN SubSeq(s, 1, Len(s) - Len(BACKTICKS)) ELSE s

extract_code(resp) == RemoveEnd(RemoveStart(strip(resp)))

----------------------------------------------------------------------------
(* Responses of the completion service *)

Bare(x) == x

Fenced(x) == BACKTICKS \o x \o BACKTICKS

FencedLines(x) == BACKTICKS \o <<"\n">> \o x \o <<"\n">> \o BACKTICKS

Padded(x) == <<"\n">> \o BACKTICKS \o x \o BACKTICKS \o <<" ", "\n">>

ResponsesOf(x) == {Bare(x), Fenced(x), FencedLines(x), Padded(x)}

Responses == UNION {ResponsesOf(x) : x \in Texts}

----------------------------------------------------------------------------
(* call_openai and format_source *)

\* what openai.ChatCompletion.create can hand back when the text in hand is src;
\* a reply cut off at the length limit: an opening fence and a little text
Truncated == {BACKTICKS \o x : x \in TextsUpTo(1)}

\* the replies drawn in a round: any text as it is, the shorter texts and
\* the text in hand also between markers
Replies(src) ==
    Texts \cup UNION {ResponsesOf(x) : x \in TextsUpTo(MaxLen - 1) \cup {src}}

Completions(src) ==
    [finish_reason : {"stop"}, content : Replies(src)]
    \cup [finish_reason : {"length"}, content : Truncated]

\* variant: the finish reason is not looked at
call_openai_unchecked(completion) ==
    [raised |-> "", content |-> completion.content]

\* the exception call_openai raises on completion ("" if none) and what it returns
call_openai(completion) ==
    IF completion.finish_reason = "length"
    THEN [raised |-> "RuntimeError", content |-> NoText]
    ELSE [raised |-> "", content |-> completion.content]

\* variant: the error handed in is handed back
format_source_keeps_error(resp, err) == <<extract_code(resp), err>>

\* the pair format_source returns for a response, given the error it was handed
format_source(resp, err) == <<extract_code(resp), NoError>>

----------------------------------------------------------------------------
(* main *)

Init ==
    /\ pc = "start"
    /\ iterations \in 0..MaxIter
    /\ iteration = 0
    /\ disk \in Texts
    /\ source = NoText
    /\ new_source = NoText
    /\ error = NoError
    /\ prompt = NoText
    /\ response = NoText
    /\ finish_reason = ""
    /\ raised = ""
    /\ diff = NoDiff
    /\ calls = 0
    /\ writes = 0
    /\ diffs = 0
    /\ validations = 0
    /\ lastGood = disk
    /\ lastOutcome = NoError
    /\ script = NoText

\* variant: the file content is not validated before the loop
InitialCheckSkipped(text) == NoError

\* line 13: the validation of the file content before the loop
InitialCheck(text) == compile_source(text)

\* lines 10-16, initial content parses
MainEntry ==
    /\ pc = "start"
    /\ InitialCheck(disk) = NoError
    /\ source' = disk
    /\ error' = NoError
    /\ new_source' = disk
    /\ pc' = "loop"
    /\ UNCHANGED <<iterations, iteration, disk, prompt, response, finish_reason,
                   raised, diff, calls, writes, diffs, validations, lastGood,
                   lastOutcome, script>>

\* lines 10-13, ast.parse raises on the initial content and nothing catches it
MainEntryRaises ==
    /\ pc = "start"
    /\ InitialCheck(disk) # NoError
    /\ source' = disk
    /\ raised' = "SyntaxError"
    /\ pc' = "aborted"
    /\ UNCHANGED <<iterations, iteration, disk, new_source, error, prompt,
                   response, finish_reason, diff, calls, writes, diffs,
                   validations, lastGood, lastOutcome, script>>

\* variant: the loop body runs at least once
RangeHasNextDoWhile(i, n) == i < n \/ i = 0

\* range(iterations) has a next element after i rounds
RangeHasNext(i, n) == i < n

\* line 18, the loop takes its next element
NextRound ==
    /\ pc = "loop"
    /\ RangeHasNext(iteration, iterations)
    /\ iteration' = iteration + 1
    /\ pc' = "format"
    /\ UNCHANGED <<iterations, disk, source, new_source, error, prompt, response,
                   finish_reason, raised, diff, calls, writes, diffs,
                   validations, lastGood, lastOutcome, script>>

\* lines 18 and 30, the range is exhausted and "Formatted" is printed
Finish ==
    /\ pc = "loop"
    /\ ~RangeHasNext(iteration, iterations)
    /\ pc' = "done"
    /\ UNCHANGED <<iterations, iteration, disk, source, new_source, error,
                   prompt, response, finish_reason, raised, diff, calls, writes,
                   diffs, validations, lastGood, lastOutcome, script>>

\* line 19 and lines 47-52, the completion comes back whole
FormatSourceReturns ==
    /\ pc = "format"
    /\ \E completion \in Completions(source) :
         LET reply == call_openai(completion)
             result == format_source(reply.content, error)
         IN  /\ reply.raised = ""
             /\ prompt' = create_prompt(source, error)
             /\ finish_reason' = completion.finish_reason
             /\ response' = reply.content
             /\ new_source' = result[1]
             /\ error' = result[2]
    /\ calls' = calls + 1
    /\ pc' = "print"
    /\ UNCHANGED <<iterations, iteration, disk, source, raised, diff, writes,
                   diffs, validations, lastGood, lastOutcome, script>>

\* lines 19, 49 and 166-167, call_openai raises and main does not catch it
FormatSourceRaises ==
    /\ pc = "format"
    /\ \E completion \in Completions(source) :
         LET reply == call_openai(completion)
         IN  /\ reply.raised # ""
             /\ prompt' = create_prompt(source, error)
             /\ finish_reason' = completion.finish_reason
             /\ raised' = reply.raised
    /\ calls' = calls + 1
    /\ pc' = "aborted"
    /\ UNCHANGED <<iterations, iteration, disk, source, new_source, error,
                   response, diff, writes, diffs, validations, lastGood,
                   lastOutcome, script>>

\* lines 162-165, openai.ChatCompletion.create itself raises
ClientRaises ==
    /\ pc = "format"
    /\ prompt' = create_prompt(source, error)
    /\ raised' = "OpenAIError"
    /\ calls' = calls + 1
    /\ pc' = "aborted"
    /\ UNCHANGED <<iterations, iteration, disk, source, new_source, error,
                   response, finish_reason, diff, writes, diffs, validations,
                   lastGood, lastOutcome, script>>

\* line 20 and lines 171-182
PrintIterationDetails ==
    /\ pc = "print"
    /\ diff' = <<splitlines(source), splitlines(new_source)>>
    /\ diffs' = diffs + 1
    /\ pc' = "compile"
    /\ UNCHANGED <<iterations, iteration, disk, source, new_source, error,
                   prompt, response, finish_reason, raised, calls, writes,
                   validations, lastGood, lastOutcome, script>>

\* The end of a round: main's source, the file and main's error become src,
\* dsk and err, after w calls of write_file, and main goes on at next.  format_source's locals and the
\* round's diff are gone; the history records what ast.parse said.
RoundEnds(src, dsk, err, w, next) ==
    /\ source' = src
    /\ disk' = dsk
    /\ error' = err
    /\ writes' = writes + w
    /\ validations' = validations + 1
    /\ lastGood' = IF compile_source(new_source) = NoError THEN new_source
                   ELSE lastGood
    /\ lastOutcome' = compile_source(new_source)
    /\ prompt' = NoText
    /\ response' = NoText
    /\ finish_reason' = ""
    /\ diff' = NoDiff
    /\ pc' = next
    /\ UNCHANGED <<iterations, iteration, new_source, raised, calls, diffs,
                   script>>

\* variant: the accepted candidate is kept in memory and not written
TryDefersWrite ==
    /\ pc = "compile"
    /\ compile_source(new_source) = NoError
    /\ RoundEnds(new_source, disk, error, 0, "loop")

\* variant: the first accepted candidate ends the run
TryStopsOnSuccess ==
    /\ pc = "compile"
    /\ compile_source(new_source) = NoError
    /\ RoundEnds(new_source, new_source, error, 1, "done")

\* lines 21-24
TrySucceeds ==
    /\ pc = "compile"
    /\ compile_source(new_source) = NoError
    /\ RoundEnds(new_source, new_source, error, 1, "loop")

\* variant: the rejected candidate is written all the same
ExceptWritesCandidate ==
    /\ pc = "compile"
    /\ compile_source(new_source) # NoError
    /\ RoundEnds(source, new_source, compile_source(new_source), 1, "loop")

\* variant: the rejected candidate becomes the Source Buffer
ExceptKeepsCandidate ==
    /\ pc = "compile"
    /\ compile_source(new_source) # NoError
    /\ RoundEnds(new_source, disk, compile_source(new_source), 0, "loop")

\* lines 21-22 and 26-28
ExceptSyntaxError ==
    /\ pc = "compile"
    /\ compile_source(new_source) # NoError
    /\ RoundEnds(source, disk, compile_source(new_source), 0, "loop")

Next ==
    \/ MainEntry
    \/ MainEntryRaises
    \/ NextRound
    \/ Finish
    \/ FormatSourceReturns
    \/ FormatSourceRaises
    \/ ClientRaises
    \/ PrintIterationDetails
    \/ TrySucceeds
    \/ ExceptSyntaxError

Spec == Init /\ [][Next]_vars

TypeOK ==
    /\ pc \in {"start", "loop", "format", "print", "compile", "done", "aborted"}
    /\ iterations \in 0..MaxIter
    /\ iteration \in 0..iterations
    /\ calls \in 0..iterations
    /\ raised \in {"", "SyntaxError", "RuntimeError", "OpenAIError"}

----------------------------------------------------------------------------
(* extract_code, statement by statement, on every response *)

InitExtract ==
    /\ pc = "x_strip"
    /\ response \in Responses
    /\ script = NoText
    /\ iterations = 0
    /\ iteration = 0
    /\ disk = NoText
    /\ source = NoText
    /\ new_source = NoText
    /\ error = NoError
    /\ prompt = NoText
    /\ finish_reason = "stop"
    /\ raised = ""
    /\ diff = NoDiff
    /\ calls = 0
    /\ writes = 0
    /\ diffs = 0
    /\ validations = 0
    /\ lastGood = NoText
    /\ lastOutcome = NoError

\* line 149
StripResponse ==
    /\ pc = "x_strip"
    /\ script' = strip(response)
    /\ pc' = "x_start"
    /\ UNCHANGED <<iterations, iteration, disk, source, new_source, error,
                   prompt, response, finish_reason, raised, diff, calls, writes,
                   diffs, validations, lastGood, lastOutcome>>

\* lines 151-153
RemoveBackticksAtStart ==
    /\ pc = "x_start"
    /\ script' = RemoveStart(script)
    /\ pc' = "x_end"
    /\ UNCHANGED <<iterations, iteration, disk, source, new_source, error,
                   prompt, response, finish_reason, raised, diff, calls, writes,
                   diffs, validations, lastGood, lastOutcome>>

\* lines 154-157
RemoveBackticksAtEnd ==
    /\ pc = "x_end"
    /\ script' = RemoveEnd(script)
    /\ pc' = "x_done"
    /\ UNCHANGED <<iterations, iteration, disk, source, new_source, error,
                   prompt, response, finish_reason, raised, diff, calls, writes,
                   diffs, validations, lastGood, lastOutcome>>

NextExtract ==
    \/ StripResponse
    \/ RemoveBackticksAtStart
    \/ RemoveBackticksAtEnd

SpecExtract == InitExtract /\ [][NextExtract]_vars

----------------------------------------------------------------------------
(* Reading a prompt back *)

IndexOf(p, tok) == Min({i \in 1..Len(p) : p[i] = tok})

HasHint(p) == HINT_HEAD \in Range(p)

\* the text between the hint block's opening and closing lines
HintText(p) == SubSeq(p, IndexOf(p, HINT_HEAD) + 1, IndexOf(p, HINT_TAIL) - 1)

\* the text between the instruction block and the end of the base prompt
PromptSource(p) == SubSeq(p, IndexOf(p, PROMPT_HEAD) + 1, IndexOf(p, PROMPT_TAIL) - 1)

\* t is x without its leading and trailing whitespace
IsTrimOf(t, x) ==
    /\ t # <<>> => ~IsSpace(t[1]) /\ ~IsSpace(t[Len(t)])
    /\ \E i \in 0..Len(x) : \E j \in i..Len(x) :
         /\ SubSeq(x, i + 1, j) = t
         /\ \A k \in 1..i : IsSpace(x[k])
         /\ \A k \in (j + 1)..Len(x) : IsSpace(x[k])

\* x holds no fence marker
NoMarkers(x) == \A i \in 1..Len(x) : ~startswith(SubSeq(x, i, Len(x)), BACKTICKS)

InRound == pc \in {"print", "compile"}

----------------------------------------------------------------------------
(* Claims *)

\* C1: every write_file call happens in the try block of a round, right after
\* compile_source returned normally on the very text that is written; the file
\* changes only by such a write, and a round whose candidate fails validation
\* leaves the file and the write count alone.
C1_WriteOnlyValidated ==
    [][ /\ writes' # writes =>
            /\ pc = "compile"
            /\ writes' = writes + 1
            /\ compile_source(new_source) = NoError
            /\ disk' = new_source
        /\ disk' # disk => writes' # writes
        /\ (pc = "compile" /\ compile_source(new_source) # NoError) =>
            (disk' = disk /\ writes' = writes) ]_vars

\* a round has written a candidate, and the latest candidate failed and is not on disk
C1_Witness ==
    /\ pc = "loop"
    /\ writes > 0
    /\ lastOutcome # NoError
    /\ disk # new_source

\* C2: while the content the run started from (lastGood before any candidate
\* is accepted) fails validation, main is either not yet entered, where its
\* only step is the uncaught SyntaxError, or aborted with that SyntaxError;
\* no completion call, no round, no prompt, no write, file untouched; no
\* step follows the SyntaxError.
C2_InvalidInitialAborts ==
    /\ [](compile_source(lastGood) # NoError =>
            /\ pc \in {"start", "aborted"}
            /\ pc = "start" => ENABLED MainEntryRaises
            /\ pc = "aborted" => raised = "SyntaxError"
            /\ calls = 0
            /\ iteration = 0
            /\ validations = 0
            /\ writes = 0
            /\ prompt = NoText
            /\ disk = lastGood)
    /\ [][ /\ raised # "SyntaxError"
           /\ (pc = "start" /\ compile_source(disk) # NoError) => pc' = "aborted" ]_vars

\* an invalid file, iterations requested, run aborted
C2_Witness ==
    /\ pc = "aborted"
    /\ raised = "SyntaxError"
    /\ iterations > 0
    /\ compile_source(disk) # NoError

\* C3: with zero requested iterations and a valid initial content, once main
\* is entered it is at the loop head, where its only step is the final
\* report, or done; no completion call, no write, the file is the initial
\* content, nothing raised.
C3_ZeroIterations ==
    (iterations = 0 /\ pc # "start" /\ compile_source(lastGood) = NoError) =>
        /\ pc \in {"loop", "done"}
        /\ pc = "loop" => ENABLED Finish /\ ~ENABLED NextRound
        /\ calls = 0
        /\ writes = 0
        /\ iteration = 0
        /\ disk = lastGood
        /\ raised = ""

\* a non-empty valid file, zero iterations, run finished
C3_Witness ==
    /\ pc = "done"
    /\ iterations = 0
    /\ Len(disk) > 0
    /\ compile_source(disk) = NoError

\* C4 as stated: marker, newline, X, newline, marker extracts to X followed
\* by one newline; X without markers extracts to X itself.
C4_Original ==
    pc = "x_done" =>
        \A x \in Texts :
            /\ response = FencedLines(x) => script = x \o <<"\n">>
            /\ (response = Bare(x) /\ NoMarkers(x)) => script = x

\* C4, amended: marker, newline, X, newline, marker extracts to newline, X,
\* newline (only the two markers go); X without markers extracts to X
\* without its leading and trailing whitespace.
C4_FenceStripping ==
    pc = "x_done" =>
        \A x \in Texts :
            /\ response = FencedLines(x) => script = <<"\n">> \o x \o <<"\n">>
            /\ (response = Bare(x) /\ NoMarkers(x)) => IsTrimOf(script, x)

\* the fenced one-line body has been extracted
C4_Witness ==
    /\ pc = "x_done"
    /\ response = FencedLines(<<"a">>)
    /\ script = <<"\n", "a", "\n">>

\* C5 as stated: when the response of a round is the Source Buffer between
\* fence markers (markers directly around it, or on lines of their own), the
\* candidate is the Source Buffer, it validates, and the round writes it.
C5_Original ==
    [][ (pc = "compile" /\ response \in {Fenced(source), FencedLines(source)}) =>
            /\ new_source = source
            /\ compile_source(new_source) = NoError
            /\ writes' = writes + 1
            /\ disk' = source
            /\ source' = source ]_vars

\* C5, amended: when the response of a round is the Source Buffer with a
\* marker directly before and directly after it, the candidate is the Source
\* Buffer, it validates, and the round writes it.
C5_RoundTrip ==
    [][ (pc = "compile" /\ response = Fenced(source)) =>
            /\ new_source = source
            /\ compile_source(new_source) = NoError
            /\ writes' = writes + 1
            /\ disk' = source
            /\ source' = source ]_vars

\* a non-empty source came back between markers and was extracted unchanged
C5_Witness ==
    /\ pc = "compile"
    /\ Len(source) > 0
    /\ response = Fenced(source)
    /\ new_source = source

\* C6: whenever a prompt has been built, it has a hint block exactly if the
\* round before this one failed validation, the hint is that round's message,
\* and round 1 has none; once format_source has returned, error is empty.
C6_SingleShotHint ==
    /\ prompt # NoText =>
        /\ HasHint(prompt) <=> lastOutcome # NoError
        /\ HasHint(prompt) => HintText(prompt) = lastOutcome
        /\ iteration = 1 => ~HasHint(prompt)
    /\ InRound => error = NoError

\* round 3's prompt without hint, after one failed and one accepted round:
\* round 2 was the accepted one, so round 1 failed and its hint is gone
C6_Witness ==
    /\ pc = "print"
    /\ iteration = 3
    /\ validations = 2
    /\ writes = 1
    /\ lastOutcome = NoError
    /\ ~HasHint(prompt)

\* C7: while nothing has been raised, between steps of the loop and at the
\* end the file is the last candidate that passed validation (the initial
\* content if none did), it parses, and it is not a candidate that failed.
C7_LastGoodOnDisk ==
    (raised = "" /\ pc # "start") =>
        /\ disk = lastGood
        /\ compile_source(disk) = NoError
        /\ (pc \in {"loop", "done"} /\ lastOutcome # NoError) => disk # new_source

\* finished after a write, with the final round's candidate rejected
C7_Witness ==
    /\ pc = "done"
    /\ writes > 0
    /\ lastOutcome # NoError
    /\ disk # new_source

\* C8: after a completion with finish reason length the run is aborted by
\* the RuntimeError in the round of that call: no step follows, nothing was
\* extracted, diffed or validated in that round, error and new_source are
\* what the round before left, and the file is the last good text.
C8_TruncatedAborts ==
    /\ [](finish_reason = "length" =>
            /\ pc = "aborted"
            /\ raised = "RuntimeError"
            /\ calls = iteration
            /\ diffs = iteration - 1
            /\ validations = iteration - 1
            /\ response = NoText
            /\ diff = NoDiff
            /\ error = lastOutcome
            /\ lastOutcome = NoError => new_source = source
            /\ lastOutcome # NoError => compile_source(new_source) = lastOutcome
            /\ disk = lastGood)
    /\ [][finish_reason # "length"]_vars

\* truncated in a later round, after a candidate had been written
C8_Witness ==
    /\ finish_reason = "length"
    /\ pc = "aborted"
    /\ iteration > 1
    /\ writes > 0

\* C9: unless something other than a candidate's SyntaxError is raised, the
\* run does not stop before the budget is used: done is reached only with
\* exactly iterations rounds, calls, diffs and validations; at the loop head
\* with budget left the only step is the next round, also after an accepted
\* candidate; a validation ends its round and hands over to the loop head,
\* whatever its outcome; the run is aborted only by something raised.
C9_ExactBudget ==
    /\ [](/\ pc = "done" =>
              /\ raised = ""
              /\ iteration = iterations
              /\ calls = iterations
              /\ diffs = iterations
              /\ validations = iterations
          /\ pc = "aborted" => raised # ""
          /\ (pc = "loop" /\ iteration < iterations) =>
              ENABLED NextRound /\ ~ENABLED Finish
          /\ (pc = "loop" /\ iteration = iterations) => ENABLED Finish
          /\ pc \in {"format", "print", "compile"} => iteration \in 1..iterations)
    /\ [][ /\ pc = "loop" => pc' \in {"format", "done"}
           /\ pc = "format" => pc' \in {"print", "aborted"}
           /\ pc = "print" => pc' = "compile"
           /\ pc = "compile" =>
               /\ pc' = "loop"
               /\ iteration' = iteration
               /\ validations' = validations + 1
               /\ raised' = "" ]_vars

\* done after three rounds of which some passed and some failed
C9_Witness ==
    /\ pc = "done"
    /\ iterations = 3
    /\ writes > 0
    /\ validations > writes

\* C10: in every round, before and after the prompt is built, the Source
\* Buffer is the file content and the last text that passed validation; the
\* source text inside the prompt and the before side of the diff are that text.
C10_BufferIsDisk ==
    /\ pc \in {"format", "print", "compile"} =>
        /\ source = disk
        /\ source = lastGood
        /\ compile_source(source) = NoError
    /\ InRound => PromptSource(prompt) = lastGood
    /\ pc = "compile" => diff[1] = splitlines(lastGood)

\* a round after a rejected candidate, with an earlier one accepted
C10_Witness ==
    /\ pc = "compile"
    /\ lastOutcome # NoError
    /\ writes > 0
    /\ new_source # source
    /\ PromptSource(prompt) = source

====
